---------------------------- MODULE Spec2Model ----------------------------
(* Student Management System (src/app.py): a Streamlit front end over one  *)
(* SQLite table, students(id, name, email, phone, age, created_at).        *)
(* Text values are sequences of one-character strings, so that formatting, *)
(* splitting and parsing are computed the way the Python code computes     *)
(* them.                                                                   *)
EXTENDS Integers, Sequences, FiniteSets, TLC

VARIABLES students, sqlite_sequence, now, open, last, issued, deleted, sel

vars == <<students, sqlite_sequence, now, open, last, issued, deleted, sel>>

dbvars == <<students, sqlite_sequence, now, open, last, issued, deleted>>

-----------------------------------------------------------------------------
(* Bounds of the model.                                                    *)

\* largest id the table hands out before inserts are cut off
MaxSeq == 2
\* last value of the CURRENT_TIMESTAMP clock
MaxTime == 1
\* largest record id offered in a selector
MaxSelId == 12
\* longest name offered in a selector
MaxNameLen == 3

-----------------------------------------------------------------------------
(* Text.                                                                   *)

Digit == <<"0", "1", "2", "3", "4", "5", "6", "7", "8", "9">>

\* the separator of f"{student[0]} - {student[1]}" and of split(" - ")
Sep == <<" ", "-", " ">>

\* code points, for ORDER BY name under SQLite's BINARY collation
Ord(c) ==
    CASE c = " " -> 32
      [] c = "-" -> 45
      [] c = "0" -> 48
      [] c = "1" -> 49
      [] c = "2" -> 50
      [] c = "3" -> 51
      [] c = "4" -> 52
      [] c = "5" -> 53
      [] c = "6" -> 54
      [] c = "7" -> 55
      [] c = "8" -> 56
      [] c = "9" -> 57
      [] c = "a" -> 97
      [] c = "b" -> 98
      [] OTHER -> 99

RECURSIVE StrLess(_, _)
StrLess(s, t) ==
    IF t = <<>> THEN FALSE
    ELSE IF s = <<>> THEN TRUE
    ELSE IF Ord(Head(s)) # Ord(Head(t)) THEN Ord(Head(s)) < Ord(Head(t))
    ELSE StrLess(Tail(s), Tail(t))

\* Python's str() of a non-negative int: its decimal digits
RECURSIVE str(_)
str(n) ==
    IF n < 10 THEN <<Digit[n + 1]>>
    ELSE str(n \div 10) \o <<Digit[(n % 10) + 1]>>

\* index of the first occurrence of p in s, 0 when there is none
Find(s, p) ==
    LET hits == {i \in 1..(Len(s) - Len(p) + 1) : SubSeq(s, i, i + Len(p) - 1) = p}
    IN  IF hits = {} THEN 0 ELSE CHOOSE i \in hits : \A j \in hits : i <= j

\* index of the last occurrence of p in s, 0 when there is none
FindLast(s, p) ==
    LET hits == {i \in 1..(Len(s) - Len(p) + 1) : SubSeq(s, i, i + Len(p) - 1) = p}
    IN  IF hits = {} THEN 0 ELSE CHOOSE i \in hits : \A j \in hits : i >= j

\* Python's s.split(sep): the pieces between successive occurrences of sep
RECURSIVE split(_, _)
split(s, sep) ==
    LET i == Find(s, sep)
    IN  IF i = 0 THEN <<s>>
        ELSE <<SubSeq(s, 1, i - 1)>> \o split(SubSeq(s, i + Len(sep), Len(s)), sep)

IsDigit(c) == \E d \in 1..10 : Digit[d] = c

DigitValue(c) == (CHOOSE d \in 1..10 : Digit[d] = c) - 1

RECURSIVE Strip(_)
Strip(s) ==
    IF s # <<>> /\ Head(s) = " " THEN Strip(Tail(s))
    ELSE IF s # <<>> /\ s[Len(s)] = " " THEN Strip(SubSeq(s, 1, Len(s) - 1))
    ELSE s

RECURSIVE DigitsValue(_)
DigitsValue(s) ==
    IF s = <<>> THEN 0
    ELSE 10 * DigitsValue(SubSeq(s, 1, Len(s) - 1)) + DigitValue(s[Len(s)])

\* Python's int() of a string: surrounding blanks, an optional sign, digits;
\* anything else raises ValueError (ok = FALSE)
int(s) ==
    LET t == Strip(s)
        neg == t # <<>> /\ Head(t) = "-"
        d == IF t # <<>> /\ Head(t) \in {"-", "+"} THEN Tail(t) ELSE t
    IN  IF d = <<>> \/ \E i \in 1..Len(d) : ~IsDigit(d[i])
        THEN [ok |-> FALSE, val |-> 0]
        ELSE [ok |-> TRUE, val |-> IF neg THEN 0 - DigitsValue(d) ELSE DigitsValue(d)]

-----------------------------------------------------------------------------
(* Values.                                                                 *)

\* the bounds of the Age widget: st.number_input(min_value=1, max_value=100)
MinAge == 1
MaxAge == 100

\* the records a caller passes: all four fields present, and no field shared
StudentA == [name |-> <<"a">>, email |-> <<"x">>, phone |-> <<"5">>, age |-> MinAge]
StudentB == [name |-> <<"b", " ", "-", " ", "1">>, email |-> <<"y">>, phone |-> <<"7">>,
             age |-> MaxAge]

Inputs == {StudentA, StudentB}

\* what a form can hold on submit: a text field may have been left empty
FormInputs ==
    Inputs \cup {[r EXCEPT !.name = <<>>] : r \in Inputs}
           \cup {[r EXCEPT !.email = <<>>] : r \in Inputs}
           \cup {[r EXCEPT !.phone = <<>>] : r \in Inputs}

NoInput == [name |-> <<>>, email |-> <<>>, phone |-> <<>>, age |-> 0]

\* where the engine can raise inside one storage call ("none": it does not)
WriteFaults == {"none", "connect", "cursor", "execute", "commit"}
ReadFaults == {"none", "connect", "cursor", "execute"}

Ids(st) == {st[i].id : i \in DOMAIN st}

MaxRowid(st) == IF st = <<>> THEN 0 ELSE CHOOSE m \in Ids(st) : \A j \in Ids(st) : j <= m

RowOf(st, id) == st[CHOOSE i \in DOMAIN st : st[i].id = id]

\* the columns of SELECT id, name, email, phone, age
Columns(r) == <<r.id, r.name, r.email, r.phone, r.age>>

\* the test with the phone left out: name and email and age
AllPresentButPhone(r) == r.name # <<>> /\ r.email # <<>> /\ r.age # 0

\* the submit handlers' test, name and email and phone and age: Python takes
\* "" and 0 for false
AllPresent(r) == r.name # <<>> /\ r.email # <<>> /\ r.phone # <<>> /\ r.age # 0

-----------------------------------------------------------------------------
(* Storage functions.  Each returns what the call leaves behind: the table *)
(* (st), the AUTOINCREMENT counter (sq), the connections it left unclosed  *)
(* (leak), its return value (kind, ok, rows), the messages it displayed    *)
(* (msgs) and whether an exception left the function (raised).             *)

Outcome(st, sq, leak, kind, ok, rows, msgs, raised) ==
    [st |-> st, sq |-> sq, leak |-> leak, kind |-> kind, ok |-> ok, rows |-> rows,
     msgs |-> msgs, raised |-> raised]

\* sqlite3.connect('data.db') raises, or the connection is open
get_connection(f) == f # "connect"

\* an exception raised outside any try block: nothing is returned or displayed,
\* and a connection that was opened stays open
Escapes(st, sq, f) ==
    Outcome(st, sq, IF get_connection(f) THEN 1 ELSE 0, "exception", FALSE, <<>>, <<>>, TRUE)

create_table(st, sq, f) ==
    IF f # "none" THEN Escapes(st, sq, f)
    ELSE Outcome(st, sq, 0, "None", TRUE, <<>>, <<>>, FALSE)

\* INTEGER PRIMARY KEY without AUTOINCREMENT: one more than the largest rowid
\* in the table
NextIdNoAutoincrement(st, sq) == MaxRowid(st) + 1

\* an id computed from the number of rows
NextIdRowCount(st, sq) == Len(st) + 1

\* INTEGER PRIMARY KEY AUTOINCREMENT: one more than the largest rowid ever used
NextId(st, sq) == (IF sq > MaxRowid(st) THEN sq ELSE MaxRowid(st)) + 1

\* insert_student without conn.commit(): close() drops the uncommitted row
insert_student_no_commit(st, sq, r, t, f) ==
    IF f \in {"connect", "cursor"} THEN Escapes(st, sq, f)
    ELSE IF f = "execute"
    THEN Outcome(st, sq, 0, "bool", FALSE, <<>>, <<"error: adding student">>, FALSE)
    ELSE Outcome(st, sq, 0, "bool", TRUE, <<>>, <<"success: student added">>, FALSE)

insert_student(st, sq, r, t, f) ==
    IF f \in {"connect", "cursor"} THEN Escapes(st, sq, f)
    ELSE IF f \in {"execute", "commit"}
    THEN Outcome(st, sq, 0, "bool", FALSE, <<>>, <<"error: adding student">>, FALSE)
    ELSE Outcome(Append(st, [id |-> NextId(st, sq), name |-> r.name, email |-> r.email,
                             phone |-> r.phone, age |-> r.age, created_at |-> t]),
                 NextId(st, sq), 0, "bool", TRUE, <<>>,
                 <<"success: student added">>, FALSE)

view_all_students(st, sq, f) ==
    IF f \in {"connect", "cursor"} THEN Escapes(st, sq, f)
    ELSE IF f = "execute"
    THEN Outcome(st, sq, 0, "None", FALSE, <<>>, <<"error: retrieving records">>, FALSE)
    ELSE IF st # <<>>
    THEN Outcome(st, sq, 0, "DataFrame", TRUE, [i \in DOMAIN st |-> Columns(st[i])],
                 <<>>, FALSE)
    ELSE Outcome(st, sq, 0, "None", FALSE, <<>>, <<>>, FALSE)

get_student_by_id(st, sq, id, f) ==
    IF f \in {"connect", "cursor"} THEN Escapes(st, sq, f)
    ELSE IF f = "execute"
    THEN Outcome(st, sq, 0, "None", FALSE, <<>>, <<"error: retrieving student">>, FALSE)
    ELSE IF id \in Ids(st)
    THEN Outcome(st, sq, 0, "row", TRUE, <<Columns(RowOf(st, id))>>, <<>>, FALSE)
    ELSE Outcome(st, sq, 0, "None", FALSE, <<>>, <<>>, FALSE)

\* the orders ORDER BY name allows: rows with equal names come in any order
OrderedByName(st) ==
    {p \in [DOMAIN st -> DOMAIN st] :
        /\ \A i, j \in DOMAIN st : i # j => p[i] # p[j]
        /\ \A i, j \in DOMAIN st : i < j => ~StrLess(st[p[j]].name, st[p[i]].name)}

get_all_student_ids(st, sq, p, f) ==
    IF f \in {"connect", "cursor"} THEN Escapes(st, sq, f)
    ELSE IF f = "execute"
    THEN Outcome(st, sq, 0, "list", FALSE, <<>>, <<"error: retrieving student list">>,
                 FALSE)
    ELSE Outcome(st, sq, 0, "list", TRUE,
                 [i \in DOMAIN st |-> <<st[p[i]].id, st[p[i]].name>>], <<>>, FALSE)

\* update_student without WHERE id = ?: every row is overwritten
update_student_no_where(st, sq, id, r, f) ==
    IF f \in {"connect", "cursor"} THEN Escapes(st, sq, f)
    ELSE IF f \in {"execute", "commit"}
    THEN Outcome(st, sq, 0, "bool", FALSE, <<>>, <<"error: updating student">>, FALSE)
    ELSE Outcome([i \in DOMAIN st |->
                    [st[i] EXCEPT !.name = r.name, !.email = r.email,
                                  !.phone = r.phone, !.age = r.age]],
                 sq, 0, "bool", TRUE, <<>>, <<"success: student updated">>, FALSE)

\* update_student reporting failure when cursor.rowcount is 0
update_student_checks_rowcount(st, sq, id, r, f) ==
    IF f \in {"connect", "cursor"} THEN Escapes(st, sq, f)
    ELSE IF f \in {"execute", "commit"} \/ id \notin Ids(st)
    THEN Outcome(st, sq, 0, "bool", FALSE, <<>>, <<"error: updating student">>, FALSE)
    ELSE Outcome([i \in DOMAIN st |->
                    IF st[i].id = id
                    THEN [st[i] EXCEPT !.name = r.name, !.email = r.email,
                                       !.phone = r.phone, !.age = r.age]
                    ELSE st[i]],
                 sq, 0, "bool", TRUE, <<>>, <<"success: student updated">>, FALSE)

update_student(st, sq, id, r, f) ==
    IF f \in {"connect", "cursor"} THEN Escapes(st, sq, f)
    ELSE IF f \in {"execute", "commit"}
    THEN Outcome(st, sq, 0, "bool", FALSE, <<>>, <<"error: updating student">>, FALSE)
    ELSE Outcome([i \in DOMAIN st |->
                    IF st[i].id = id
                    THEN [st[i] EXCEPT !.name = r.name, !.email = r.email,
                                       !.phone = r.phone, !.age = r.age]
                    ELSE st[i]],
                 sq, 0, "bool", TRUE, <<>>, <<"success: student updated">>, FALSE)

delete_student(st, sq, id, f) ==
    IF f \in {"connect", "cursor"} THEN Escapes(st, sq, f)
    ELSE IF f \in {"execute", "commit"}
    THEN Outcome(st, sq, 0, "bool", FALSE, <<>>, <<"error: deleting student">>, FALSE)
    ELSE Outcome(SelectSeq(st, LAMBDA row : row.id # id),
                 sq, 0, "bool", TRUE, <<>>, <<"success: student deleted">>, FALSE)

-----------------------------------------------------------------------------
(* The pages.  One run of the script is the module-level create_table()    *)
(* and then the branch of the selected operation.  ft names the storage    *)
(* call in which the engine raises during the run, and where.              *)

NoFault == [call |-> "none", point |-> "none"]

FaultsOf(calls) ==
    {NoFault} \cup {[call |-> c, point |-> pt] : c \in calls, pt \in ReadFaults \ {"none"}}
              \cup {[call |-> c, point |-> "commit"] :
                      c \in calls \cap {"create_table", "insert_student", "update_student",
                                        "delete_student"}}

At(ft, c) == IF ft.call = c THEN ft.point ELSE "none"

\* what a run leaves behind: db the last storage call's outcome, calls the
\* storage calls made in order, id the student_id the page decoded
Run(db, leak, calls, id, msgs, raised) ==
    [st |-> db.st, sq |-> db.sq, leak |-> leak, calls |-> calls, id |-> id,
     msgs |-> msgs, raised |-> raised]

page_view_all(st, sq, ft) ==
    LET c0 == create_table(st, sq, At(ft, "create_table"))
        df == view_all_students(st, sq, At(ft, "view_all_students"))
    IN  IF c0.raised THEN Run(c0, c0.leak, <<"create_table">>, 0, <<>>, TRUE)
        ELSE IF df.raised
        THEN Run(df, df.leak, <<"create_table", "view_all_students">>, 0, <<>>, TRUE)
        ELSE Run(df, 0, <<"create_table", "view_all_students">>, 0,
                 df.msgs \o (IF df.kind # "None"
                             THEN <<"dataframe", "info: total students">>
                             ELSE <<"info: no students found in the database">>),
                 FALSE)

page_add(st, sq, t, form, submit, ft) ==
    LET c0 == create_table(st, sq, At(ft, "create_table"))
        ins == insert_student(st, sq, form, t, At(ft, "insert_student"))
    IN  IF c0.raised THEN Run(c0, c0.leak, <<"create_table">>, 0, <<>>, TRUE)
        ELSE IF ~submit THEN Run(c0, 0, <<"create_table">>, 0, <<>>, FALSE)
        ELSE IF AllPresent(form)
        THEN Run(ins, ins.leak, <<"create_table", "insert_student">>, 0, ins.msgs,
                 ins.raised)
        ELSE Run(c0, 0, <<"create_table">>, 0, <<"error: please fill in all fields">>,
                 FALSE)

\* f"{student[0]} - {student[1]}"
Option(student) == str(student[1]) \o Sep \o student[2]

\* int(selected.rsplit(" - ", 1)[0]): the text before the last separator
StudentIdLastSep(selected) ==
    int(IF FindLast(selected, Sep) = 0 THEN selected
        ELSE SubSeq(selected, 1, FindLast(selected, Sep) - 1))

\* int(selected.split(" - ")[0])
StudentId(selected) == int(split(selected, Sep)[1])

\* the part of the Update and Delete pages up to the record's lookup; s below
\* is its outcome
Selector(st, sq, p, k, ft) ==
    LET c0 == create_table(st, sq, At(ft, "create_table"))
        ids == get_all_student_ids(st, sq, p, At(ft, "get_all_student_ids"))
        sid == StudentId(Option(ids.rows[k]))
        student == get_student_by_id(st, sq, sid.val, At(ft, "get_student_by_id"))
        c2 == <<"create_table", "get_all_student_ids">>
        c3 == <<"create_table", "get_all_student_ids", "get_student_by_id">>
    IN  IF c0.raised
        THEN [found |-> FALSE, run |-> Run(c0, c0.leak, <<"create_table">>, 0, <<>>, TRUE)]
        ELSE IF ids.raised
        THEN [found |-> FALSE, run |-> Run(ids, ids.leak, c2, 0, <<>>, TRUE)]
        ELSE IF ids.rows = <<>>
        THEN [found |-> FALSE,
              run |-> Run(ids, 0, c2, 0,
                          ids.msgs \o <<"info: no students found, add a student first">>,
                          FALSE)]
        ELSE IF ~sid.ok
        THEN [found |-> FALSE, run |-> Run(ids, 0, c2, 0, <<>>, TRUE)]
        ELSE IF student.raised
        THEN [found |-> FALSE, run |-> Run(student, student.leak, c3, sid.val, <<>>, TRUE)]
        ELSE [found |-> student.kind = "row",
              run |-> Run(student, 0, c3, sid.val, student.msgs, FALSE)]

page_update(st, sq, s, form, submit, ft) ==
    LET upd == update_student(st, sq, s.run.id, form, At(ft, "update_student"))
    IN  IF ~s.found THEN s.run
        ELSE IF ~submit
        THEN Run(s.run, 0, s.run.calls, s.run.id, <<"info: editing">>, FALSE)
        ELSE IF AllPresent(form)
        THEN Run(upd, upd.leak, Append(s.run.calls, "update_student"), s.run.id,
                 <<"info: editing">> \o upd.msgs, upd.raised)
        ELSE Run(s.run, 0, s.run.calls, s.run.id,
                 <<"info: editing", "error: please fill in all fields">>, FALSE)

\* one run of the Delete page; a confirmed run ends in st.rerun()
delete_run(st, sq, s, button, ft) ==
    LET del == delete_student(st, sq, s.run.id, At(ft, "delete_student"))
    IN  IF ~s.found THEN s.run
        ELSE IF button = "confirm"
        THEN Run(del, del.leak, Append(s.run.calls, "delete_student"), s.run.id,
                 <<"warning: are you sure">> \o del.msgs, del.raised)
        ELSE IF button = "cancel"
        THEN Run(s.run, 0, s.run.calls, s.run.id,
                 <<"warning: are you sure", "info: deletion cancelled">>, FALSE)
        ELSE Run(s.run, 0, s.run.calls, s.run.id, <<"warning: are you sure">>, FALSE)

-----------------------------------------------------------------------------
(* State.  students: the rows of the table in rowid order; sqlite_sequence: *)
(* the largest id AUTOINCREMENT has handed out; now: CURRENT_TIMESTAMP;     *)
(* open: connections still open when control left the latest call or run    *)
(* (CPython closes a connection nothing refers to before the next run);     *)
(* last: the latest call or page run, with what it returned and displayed;  *)
(* issued and deleted: the ids ever assigned and the ids a delete removed;  *)
(* sel: a selector's option.                                                *)

NoSel == [stage |-> "idle", id |-> 0, name |-> <<>>, option |-> <<>>, ok |-> FALSE,
          student_id |-> 0]

NoCall == [op |-> "start", id |-> 0, rec |-> NoInput, fault |-> "none", kind |-> "None",
           ok |-> TRUE, rows |-> <<>>, msgs |-> <<>>, raised |-> FALSE,
           calls |-> <<"create_table">>, submit |-> FALSE]

\* data.db after the first run's create_table(): the table exists and is empty
Init ==
    /\ students = <<>>
    /\ sqlite_sequence = 0
    /\ now = 0
    /\ open = 0
    /\ last = NoCall
    /\ issued = {}
    /\ deleted = {}
    /\ sel = NoSel

Range(q) == {q[i] : i \in DOMAIN q}

\* the state a call or run leaves: o its outcome, gone the ids it deleted
Leaves(o, gone, call) ==
    /\ students' = o.st
    /\ sqlite_sequence' = o.sq
    /\ open' = o.leak
    /\ issued' = issued \cup (Ids(o.st) \ Ids(students))
    /\ deleted' = deleted \cup gone
    /\ last' = call
    /\ UNCHANGED <<now, sel>>

Called(op, id, rec, f, o) ==
    [op |-> op, id |-> id, rec |-> rec, fault |-> f, kind |-> o.kind, ok |-> o.ok,
     rows |-> o.rows, msgs |-> o.msgs, raised |-> o.raised, calls |-> <<op>>,
     submit |-> FALSE]

Ran(op, rec, submit, fault, r) ==
    [op |-> op, id |-> r.id, rec |-> rec, fault |-> fault, kind |-> "page",
     ok |-> ~r.raised, rows |-> <<>>, msgs |-> r.msgs, raised |-> r.raised,
     calls |-> r.calls, submit |-> submit]

Hit(ft, r) == IF ft.call \in Range(r.calls) THEN ft.point ELSE "none"

\* the clock of CURRENT_TIMESTAMP advances
Tick ==
    /\ now < MaxTime
    /\ now' = now + 1
    /\ UNCHANGED <<students, sqlite_sequence, open, last, issued, deleted, sel>>

CreateTable(f) ==
    \E o \in {create_table(students, sqlite_sequence, f)} :
        Leaves(o, {}, Called("create_table", 0, NoInput, f, o))

Insert(r, f) ==
    \E o \in {insert_student(students, sqlite_sequence, r, now, f)} :
        /\ sqlite_sequence < MaxSeq
        /\ Leaves(o, {}, Called("insert_student", 0, r, f, o))

ViewAll(f) ==
    \E o \in {view_all_students(students, sqlite_sequence, f)} :
        Leaves(o, {}, Called("view_all_students", 0, NoInput, f, o))

GetById(id, f) ==
    \E o \in {get_student_by_id(students, sqlite_sequence, id, f)} :
        Leaves(o, {}, Called("get_student_by_id", id, NoInput, f, o))

GetAllIds(p, f) ==
    \E o \in {get_all_student_ids(students, sqlite_sequence, p, f)} :
        Leaves(o, {}, Called("get_all_student_ids", 0, NoInput, f, o))

Update(id, r, f) ==
    \E o \in {update_student(students, sqlite_sequence, id, r, f)} :
        Leaves(o, {}, Called("update_student", id, r, f, o))

Delete(id, f) ==
    \E o \in {delete_student(students, sqlite_sequence, id, f)} :
        Leaves(o, IF o.ok /\ id \in Ids(students) THEN {id} ELSE {},
               Called("delete_student", id, NoInput, f, o))

PageViewAll(ft) ==
    \E r \in {page_view_all(students, sqlite_sequence, ft)} :
        Leaves(r, {}, Ran("page_view_all", NoInput, FALSE, Hit(ft, r), r))

\* A run reads the widgets it reaches: the submit button and the fields of a
\* form only when the form is rendered, and insert_student or update_student
\* is called only on a submit that passes the presence test.
PageAdd(f0) ==
    \E submit \in IF f0 = "none" THEN BOOLEAN ELSE {FALSE} :
    \E form \in IF submit THEN FormInputs ELSE {NoInput} :
    \E f1 \in IF submit /\ AllPresent(form) THEN WriteFaults ELSE {"none"} :
    \E ft \in {IF f0 # "none" THEN [call |-> "create_table", point |-> f0]
                ELSE IF f1 # "none" THEN [call |-> "insert_student", point |-> f1]
                ELSE NoFault} :
    \E r \in {page_add(students, sqlite_sequence, now, form, submit, ft)} :
        /\ r.st # students => sqlite_sequence < MaxSeq
        /\ Leaves(r, {}, Ran("page_add", form, submit, Hit(ft, r), r))

PageCalls == {"create_table", "get_all_student_ids", "get_student_by_id"}

\* The selectbox offers one option per row, whatever order ORDER BY name gives
\* rows of equal name, and the user may pick any of them: the pages take one
\* admissible order, and k is the place of the picked option in it.  A run
\* that fails before the selectbox is drawn reads no selection.
ListOrder(st) == CHOOSE p \in OrderedByName(st) : TRUE

Choices(ft) ==
    IF students = <<>> \/ ft.call \in {"create_table", "get_all_student_ids"}
    THEN {1} ELSE DOMAIN students

PageUpdate(p, k, ft) ==
    \E s \in {Selector(students, sqlite_sequence, p, k, ft)} :
    \E submit \in IF s.found THEN BOOLEAN ELSE {FALSE} :
    \E form \in IF submit THEN FormInputs ELSE {NoInput} :
    \E f3 \in IF submit /\ AllPresent(form) THEN WriteFaults ELSE {"none"} :
    \E ft3 \in {IF f3 # "none" THEN [call |-> "update_student", point |-> f3] ELSE ft} :
    \E r \in {page_update(students, sqlite_sequence, s, form, submit, ft3)} :
        Leaves(r, {}, Ran("page_update", form, submit, Hit(ft3, r), r))

\* the option the selectbox shows after a rerun: the one selected before if
\* it is still offered, else the first
Reselect(st, p, id) ==
    IF \E i \in DOMAIN st : st[p[i]].id = id
    THEN CHOOSE i \in DOMAIN st : st[p[i]].id = id
    ELSE 1

\* Confirm Delete ends in st.rerun(): the script runs once more, and what the
\* page shows is what the second run displays
PageDelete(p, k, ft) ==
    \E s \in {Selector(students, sqlite_sequence, p, k, ft)} :
    \E button \in IF s.found THEN {"none", "confirm", "cancel"} ELSE {"none"} :
    \E f3 \in IF button = "confirm" THEN WriteFaults ELSE {"none"} :
    \E ft3 \in {IF f3 # "none" THEN [call |-> "delete_student", point |-> f3] ELSE ft} :
    \E r1 \in {delete_run(students, sqlite_sequence, s, button, ft3)} :
    \E gone \in {IF r1.st # students THEN {r1.id} ELSE {}} :
        IF ~(button = "confirm" /\ ~r1.raised)
        THEN Leaves(r1, gone, Ran("page_delete", NoInput, button = "confirm",
                                  Hit(ft3, r1), r1))
        ELSE \E p2 \in {ListOrder(r1.st)}, ft2 \in FaultsOf(PageCalls) :
             \E s2 \in {Selector(r1.st, r1.sq, p2, Reselect(r1.st, p2, r1.id), ft2)} :
             \E r2 \in {delete_run(r1.st, r1.sq, s2, "none", ft2)} :
             \E r \in {Run(r2, r2.leak, r1.calls \o <<"st.rerun">> \o r2.calls, r1.id,
                           r2.msgs, r2.raised)} :
                Leaves(r, gone,
                       Ran("page_delete", NoInput, TRUE,
                           IF Hit(ft3, r1) # "none" THEN Hit(ft3, r1) ELSE Hit(ft2, r2),
                           r))

AnyId == 1..(MaxSeq + 1)

\* the storage layer, called directly
Next ==
    \/ Tick
    \/ \E f \in WriteFaults : CreateTable(f)
    \/ \E r \in Inputs, f \in WriteFaults : Insert(r, f)
    \/ \E f \in ReadFaults : ViewAll(f)
    \/ \E id \in AnyId, f \in ReadFaults : GetById(id, f)
    \/ \E p \in OrderedByName(students), f \in ReadFaults : GetAllIds(p, f)
    \/ \E id \in AnyId, r \in Inputs, f \in WriteFaults : Update(id, r, f)
    \/ \E id \in AnyId, f \in WriteFaults : Delete(id, f)

\* the application, one run of the script per interaction
NextApp ==
    \/ \E ft \in FaultsOf({"create_table", "view_all_students"}) : PageViewAll(ft)
    \/ \E f0 \in WriteFaults : PageAdd(f0)
    \/ \E ft \in FaultsOf(PageCalls) : \E k \in Choices(ft) :
         PageUpdate(ListOrder(students), k, ft)
    \/ \E ft \in FaultsOf(PageCalls) : \E k \in Choices(ft) :
         PageDelete(ListOrder(students), k, ft)

Spec == Init /\ [][Next]_vars

SpecApp == Init /\ [][NextApp]_vars

-----------------------------------------------------------------------------
(* The selector's encoding on its own: a record (id, name) of the list is  *)
(* offered as the option "<id> - <name>", and picking it decodes the id.   *)

Alphabet == {" ", "-", "a", "1"}

Names == UNION {[1..n -> Alphabet] : n \in 0..MaxNameLen}

InitSel ==
    /\ students = <<>>
    /\ sqlite_sequence = 0
    /\ now = 0
    /\ open = 0
    /\ last = NoCall
    /\ issued = {}
    /\ deleted = {}
    /\ sel \in {[NoSel EXCEPT !.stage = "listed", !.id = id, !.name = name] :
                  id \in 1..MaxSelId, name \in Names}

\* options = [f"{student[0]} - {student[1]}" for student in students]
Offer ==
    /\ sel.stage = "listed"
    /\ sel' = [sel EXCEPT !.stage = "offered", !.option = Option(<<sel.id, sel.name>>)]
    /\ UNCHANGED dbvars

\* student_id = int(selected.split(" - ")[0])
Select ==
    /\ sel.stage = "offered"
    /\ sel' = [sel EXCEPT !.stage = "selected", !.ok = StudentId(sel.option).ok,
                          !.student_id = StudentId(sel.option).val]
    /\ UNCHANGED dbvars

NextSel ==
    \/ Offer
    \/ Select

SpecSel == InitSel /\ [][NextSel]_vars

-----------------------------------------------------------------------------
(* Properties.                                                              *)

Rows(st) == Range(st)

Listed(st, sq) == Range(view_all_students(st, sq, "none").rows)

\* C1: whatever the table holds, insert_student with all four fields present,
\* the engine raising no error during the call, reports success; the table
\* then holds a row with exactly those four values under an id no row had
\* before, view_all_students returns that row, and every row that was there
\* is still there unchanged.
C1_InsertAddsFreshRow ==
    [][\A r \in Inputs :
         Insert(r, "none") =>
           /\ last'.ok /\ ~last'.raised
           /\ last'.msgs = <<"success: student added">>
           /\ \E row \in Rows(students') :
                /\ row.name = r.name /\ row.email = r.email
                /\ row.phone = r.phone /\ row.age = r.age
                /\ row.id \notin Ids(students)
                /\ Columns(row) \in Listed(students', sqlite_sequence')
           /\ \A j \in DOMAIN students : students'[j] = students[j]
           /\ Len(students') = Len(students) + 1]_vars

\* C1 happens: an insert into a table that already held a row succeeded, and
\* the table holds the inserted values under the newest id.
C1_Witness ==
    /\ last.op = "insert_student" /\ last.ok
    /\ Len(students) >= 2
    /\ \E row \in Rows(students) :
         /\ row.id = sqlite_sequence
         /\ row.name = last.rec.name /\ row.age = last.rec.age

\* C2: update_student on an id that exists, the engine raising no error during
\* the call, sets that row's name, email, phone and age to exactly the given
\* values, leaves its id and created_at as they were and every other row
\* unchanged, and get_student_by_id(id) then returns the new values.
C2_UpdateOverwritesOneRow ==
    [][\A id \in AnyId, r \in Inputs :
         (Update(id, r, "none") /\ id \in Ids(students)) =>
           /\ Len(students') = Len(students)
           /\ \A j \in DOMAIN students :
                students'[j] =
                  IF students[j].id = id
                  THEN [id |-> id, name |-> r.name, email |-> r.email, phone |-> r.phone,
                        age |-> r.age, created_at |-> students[j].created_at]
                  ELSE students[j]
           /\ get_student_by_id(students', sqlite_sequence', id, "none").rows
                = <<(<<id, r.name, r.email, r.phone, r.age>>)>>]_vars

\* C2 happens: an update of an existing row succeeded in a table of two rows,
\* after the clock had moved on from the row's creation.
C2_Witness ==
    /\ last.op = "update_student" /\ last.ok
    /\ last.id \in Ids(students)
    /\ Len(students) >= 2
    /\ RowOf(students, last.id).name = last.rec.name
    /\ RowOf(students, last.id).created_at < now

\* C3: delete_student on an id that exists, the engine raising no error during
\* the call, removes that row and no other; and from then on, whatever is
\* inserted, updated or deleted, view_all_students returns no row with that
\* id and get_student_by_id(id) returns None without raising or displaying an
\* error.
C3_DeletedStaysDeleted ==
    /\ [](\A id \in deleted :
            /\ id \notin Ids(students)
            /\ \A c \in Listed(students, sqlite_sequence) : c[1] # id
            /\ get_student_by_id(students, sqlite_sequence, id, "none").kind = "None"
            /\ get_student_by_id(students, sqlite_sequence, id, "none").msgs = <<>>
            /\ ~get_student_by_id(students, sqlite_sequence, id, "none").raised)
    /\ [][\A id \in AnyId :
            (Delete(id, "none") /\ id \in Ids(students)) =>
              /\ Ids(students') = Ids(students) \ {id}
              /\ \A row \in Rows(students) : row.id # id => row \in Rows(students')
              /\ Len(students') = Len(students) - 1]_vars

\* C3 happens: a row was deleted, a row was inserted after it was created,
\* and a later lookup of the deleted id found nothing.
C3_Witness ==
    /\ last.op = "get_student_by_id"
    /\ last.id \in deleted
    /\ last.fault = "none" /\ last.kind = "None"
    /\ \E row \in Rows(students) : row.id > last.id

\* a form field left empty: "" for a text, no number for the age
SomeFieldEmpty(r) == r.name = <<>> \/ r.email = <<>> \/ r.phone = <<>> \/ r.age = 0

\* C4: a submit of the Add or the Update form with name, email, phone or age
\* empty calls neither insert_student nor update_student, leaves the table as
\* it was and displays the validation error; insert_student or update_student
\* is called only on a submit with all four fields present.
C4_PresenceValidation ==
    [][last'.op \in {"page_add", "page_update"} =>
         /\ (last'.submit /\ SomeFieldEmpty(last'.rec)) =>
              /\ "insert_student" \notin Range(last'.calls)
              /\ "update_student" \notin Range(last'.calls)
              /\ students' = students
              /\ sqlite_sequence' = sqlite_sequence
              /\ "error: please fill in all fields" \in Range(last'.msgs)
         /\ ("insert_student" \in Range(last'.calls)
               \/ "update_student" \in Range(last'.calls)) =>
              (last'.submit /\ ~SomeFieldEmpty(last'.rec))]_vars

\* C4 happens: the Update form was submitted with a field left empty.
C4_Witness ==
    /\ last.op = "page_update"
    /\ last.submit
    /\ SomeFieldEmpty(last.rec)
    /\ students # <<>>
    /\ "error: please fill in all fields" \in Range(last.msgs)

\* C5: wherever the engine raises in a storage operation (opening the
\* connection, obtaining the cursor, executing, committing), the operation
\* catches it, displays an error message and returns its failure indicator:
\* no exception leaves the operation.
C5_EveryFailureCaught ==
    last.fault # "none" =>
      /\ ~last.raised
      /\ last.msgs # <<>>
      /\ ~last.ok

\* C6: view_all_students returns for an empty table something else than for a
\* failed query, and the View All page shows the empty-state message only
\* when the query succeeded with no rows.
C6_EmptyIsNotFailure ==
    (/\ last.op = "page_view_all"
     /\ "view_all_students" \in Range(last.calls)
     /\ ~last.raised) =>
      /\ last.fault # "none" =>
            view_all_students(students, sqlite_sequence, last.fault).kind
              # view_all_students(<<>>, sqlite_sequence, "none").kind
      /\ "info: no students found in the database" \in Range(last.msgs) =>
            last.fault = "none"

\* C7: update_student and delete_student with an id that matches no row, the
\* engine raising no error during the call, leave the table exactly as it was
\* and report success: they return True and display the success message.
C7_MissingIdIsSuccessfulNoOp ==
    [][\A id \in AnyId :
         id \notin Ids(students) =>
           /\ \A r \in Inputs :
                Update(id, r, "none") =>
                  /\ students' = students /\ sqlite_sequence' = sqlite_sequence
                  /\ last'.ok /\ last'.msgs = <<"success: student updated">>
           /\ Delete(id, "none") =>
                /\ students' = students /\ sqlite_sequence' = sqlite_sequence
                /\ last'.ok /\ last'.msgs = <<"success: student deleted">>]_vars

\* C7 happens: an update or delete of an id no row ever had reported success
\* on a table that holds rows.
C7_Witness ==
    /\ last.op \in {"update_student", "delete_student"}
    /\ last.id \notin issued
    /\ last.ok
    /\ students # <<>>

\* C8: the ids of the rows are pairwise distinct, and every insert assigns an
\* id greater than every id assigned before, those of deleted rows included.
C8_IdsUniqueAndIncreasing ==
    /\ [](\A i, j \in DOMAIN students : students[i].id = students[j].id => i = j)
    /\ [][\A id \in Ids(students') \ Ids(students) : \A old \in issued : id > old]_vars

\* C8 happens: the row of the largest id was deleted, and the insert that came
\* last was given the id after it, not the deleted one.
C8_Witness ==
    /\ last.op = "insert_student" /\ last.ok
    /\ Len(students) = 1
    /\ students[1].id = sqlite_sequence
    /\ (sqlite_sequence - 1) \in deleted

\* C9: every storage operation closes the connection it opened before control
\* leaves it, on success and on every failure: no connection is left open.
C9_NoHandleLeftOpen == open = 0

\* C10: for every record (id, name) offered in a selector, names holding
\* " - " included, the id decoded from the option "<id> - <name>" is the
\* record's id.
C10_DecodedIdIsRecordId ==
    sel.stage = "selected" => (sel.ok /\ sel.student_id = sel.id)

\* C10 happens: the option of a record with a two-digit id and a name that
\* holds the separator was picked.
C10_Witness ==
    /\ sel.stage = "selected"
    /\ sel.id >= 10
    /\ Find(sel.name, Sep) > 0

=============================================================================
